---- MODULE Spec2Model ----
(***************************************************************************)
(* Student Performance Management System (src/student_system.py).          *)
(*                                                                         *)
(* The model follows the program top down: main_menu reads one menu choice *)
(* and the inputs of the chosen flow, calls one StudentManager operation,  *)
(* and catches what the operation raises.  The students table, the CSV     *)
(* backup file and what the last loop iteration printed are the state.     *)
(*                                                                         *)
(* Text is a sequence of one-character strings, so that str(), float(),    *)
(* str.strip() and the type inference of pandas.read_csv are computed on   *)
(* the characters.  marks is a float in the program; the model keeps it    *)
(* as an integer number of hundredths (55.5 is 5550).                      *)
(*                                                                         *)
(* The program creates no table: students is taken to have the text        *)
(* columns roll_no (primary key), name and grade and the numeric column    *)
(* marks.  The library calls are modelled by what they do to the values    *)
(* the program hands them: pandas.read_csv infers one type per column,     *)
(* csv.DictWriter writes str() of each value, MySQL turns a number bound   *)
(* to a text column into its decimal text.  Not modelled: the figures      *)
(* stats() prints, the drawing of the histogram, a CSV file that           *)
(* read_csv cannot parse, and marks that are NULL in the table.            *)
(***************************************************************************)
EXTENDS Integers, Sequences, FiniteSets, TLC

VARIABLES
    store,   \* the rows of table students: a set of [roll_no, name, marks, grade]
    file,    \* students_backup.csv: NoFile, or the sequence of its data rows (text cells)
    out,     \* what the last iteration of main_menu printed or displayed
    raised,  \* the exception the last iteration's try block ended with, "none" if none
    pc       \* "menu": main_menu is at its prompt; "done": it returned; "crashed": it raised

vars == <<store, file, out, raised, pc>>

-----------------------------------------------------------------------------
(* Characters and text                                                     *)

\* The characters of the model's inputs, in code-point order.
Chars == <<" ", "-", ".", "0", "1", "2", "3", "4", "5", "6", "7", "8", "9",
           "A", "B", "E", "S", "Y", "e", "l", "n", "o", "s", "x", "y">>

Ord(c) == CHOOSE i \in 1..Len(Chars) : Chars[i] = c

IsDigit(c) == c \in {"0", "1", "2", "3", "4", "5", "6", "7", "8", "9"}

DigitVal(c) == Ord(c) - Ord("0")

DigitChar(d) == Chars[Ord("0") + d]

\* str.lower() on the letters of Chars.
LowerChar(c) ==
    CASE c = "A" -> "a" [] c = "B" -> "b" [] c = "E" -> "e" [] c = "S" -> "s"
      [] c = "Y" -> "y" [] OTHER -> c

lower(t) == [i \in 1..Len(t) |-> LowerChar(t[i])]

\* str.strip(): leading and trailing blanks removed.
RECURSIVE lstrip(_)
lstrip(t) == IF t # <<>> /\ Head(t) = " " THEN lstrip(Tail(t)) ELSE t

RECURSIVE rstrip(_)
rstrip(t) == IF t # <<>> /\ t[Len(t)] = " " THEN rstrip(SubSeq(t, 1, Len(t) - 1)) ELSE t

strip(t) == rstrip(lstrip(t))

\* Lexicographic order of two texts (ORDER BY roll_no).
RECURSIVE TextLess(_, _)
TextLess(a, b) ==
    IF b = <<>> THEN FALSE
    ELSE IF a = <<>> THEN TRUE
    ELSE IF Head(a) # Head(b) THEN Ord(Head(a)) < Ord(Head(b))
    ELSE TextLess(Tail(a), Tail(b))

\* The value of a text of digits.
RECURSIVE DigitsValue(_)
DigitsValue(t) ==
    IF t = <<>> THEN 0
    ELSE 10 * DigitsValue(SubSeq(t, 1, Len(t) - 1)) + DigitVal(t[Len(t)])

\* str(n) for n >= 0.
RECURSIVE NatText(_)
NatText(n) == IF n < 10 THEN <<DigitChar(n)>> ELSE NatText(n \div 10) \o <<DigitChar(n % 10)>>

IsSigned(t) == t # <<>> /\ Head(t) = "-"

Unsigned(t) == IF IsSigned(t) THEN Tail(t) ELSE t

\* An optional sign and one or more digits: what int() and the integer
\* inference of read_csv accept ("007" is the integer 7).
IsIntText(t) ==
    LET u == Unsigned(t)
    IN  u # <<>> /\ \A i \in 1..Len(u) : IsDigit(u[i])

IntOf(t) == IF IsSigned(t) THEN 0 - DigitsValue(Unsigned(t)) ELSE DigitsValue(t)

IntText(n) == IF n < 0 THEN <<"-">> \o NatText(0 - n) ELSE NatText(n)

\* float(s) succeeds: an optional sign, digits with at most one point, at
\* least one digit.  (Exponents, inf and nan need characters outside Chars.)
IsFloatText(t) ==
    LET u == Unsigned(t)
        dots == {i \in 1..Len(u) : u[i] = "."}
    IN  /\ Cardinality(dots) <= 1
        /\ \A i \in (1..Len(u)) \ dots : IsDigit(u[i])
        /\ \E i \in 1..Len(u) : IsDigit(u[i])

\* float(s), in hundredths.  The inputs of the model carry at most two
\* fractional digits, so the value is exact.
FloatOf(t) ==
    LET u == Unsigned(t)
        dots == {i \in 1..Len(u) : u[i] = "."}
        dot == IF dots = {} THEN Len(u) + 1 ELSE CHOOSE i \in dots : TRUE
        ip == SubSeq(u, 1, dot - 1)
        fp == SubSeq(u, dot + 1, Len(u))
        d1 == IF Len(fp) >= 1 THEN DigitVal(fp[1]) ELSE 0
        d2 == IF Len(fp) >= 2 THEN DigitVal(fp[2]) ELSE 0
        mag == 100 * DigitsValue(ip) + 10 * d1 + d2
    IN  IF IsSigned(t) THEN 0 - mag ELSE mag

\* str(x) of a float x given in hundredths: 10000 is "100.0", 5550 is "55.5",
\* -1 is "-0.01".
FloatText(m) ==
    LET a == IF m < 0 THEN 0 - m ELSE m
        fr == a % 100
        frac == IF fr % 10 = 0 THEN <<DigitChar(fr \div 10)>>
                ELSE <<DigitChar(fr \div 10), DigitChar(fr % 10)>>
    IN  (IF m < 0 THEN <<"-">> ELSE <<>>) \o NatText(a \div 100) \o <<".">> \o frac

-----------------------------------------------------------------------------
(* Values handed to the database and read back from the CSV file            *)

\* A Python value bound to a %s placeholder: a str, an int, or a float
\* (floats in hundredths).
PyStr(t) == [ty |-> "str", val |-> t]

PyInt(n) == [ty |-> "int", val |-> n]

PyFloat(m) == [ty |-> "float", val |-> m]

\* The text a text column (roll_no, name, grade) holds after the value is
\* bound to it: MySQL stores the number 7 as '7'.
SqlText(v) ==
    IF v.ty = "int" THEN IntText(v.val)
    ELSE IF v.ty = "float" THEN FloatText(v.val)
    ELSE v.val

\* WHERE roll_no = %s: text against text is equality; a text column against
\* a number is compared as numbers ('007' = 7).
KeyMatches(col, v) ==
    IF v.ty = "int" THEN IsIntText(col) /\ IntOf(col) = v.val
    ELSE IF v.ty = "float" THEN IsFloatText(col) /\ FloatOf(col) = v.val
    ELSE col = v.val

Student(roll_no, name, marks, grade) ==
    [roll_no |-> roll_no, name |-> name, marks |-> marks, grade |-> grade]

RollNos(table) == {r.roll_no : r \in table}

\* What Database.execute meets: "ok", the statement runs; "fail", the server
\* rejects the statement (mysql.connector.Error); "lost", there is no live
\* connection and connect() returns False.
ExecOutcomes == {"ok", "fail", "lost"}

Done(table, rows) == [exc |-> "none", table |-> table, rows |-> rows]

Raise(exc, table) == [exc |-> exc, table |-> table, rows |-> <<>>]

\* ORDER BY roll_no: the rows of the table as a sequence, ascending.
RECURSIVE OrderByRollNo(_)
OrderByRollNo(table) ==
    IF table = {} THEN <<>>
    ELSE LET first == CHOOSE r \in table :
                          \A o \in table \ {r} : TextLess(r.roll_no, o.roll_no)
         IN  <<first>> \o OrderByRollNo(table \ {first})

\* INSERT into a table without the primary key.
InsertMissingKeyCheck(table, q) ==
    Done(table \cup {Student(SqlText(q.roll_no), SqlText(q.name), q.marks, SqlText(q.grade))},
         <<>>)

\* INSERT INTO students (roll_no, name, marks, grade) VALUES (%s, %s, %s, %s).
\* roll_no is the primary key: a second row with the same roll_no is
\* rejected with an Error.
Insert(table, q) ==
    IF SqlText(q.roll_no) \in RollNos(table) THEN Raise("Error", table)
    ELSE Done(table \cup {Student(SqlText(q.roll_no), SqlText(q.name), q.marks,
                                  SqlText(q.grade))}, <<>>)

\* UPDATE students SET <the columns of q.set> WHERE roll_no = %s.
SetColumns(r, set) ==
    [c \in DOMAIN r |-> IF c \in DOMAIN set THEN set[c] ELSE r[c]]

Update(table, q) ==
    Done({IF KeyMatches(r.roll_no, q.roll_no) THEN SetColumns(r, q.set) ELSE r : r \in table},
         <<>>)

\* DELETE without its WHERE clause.
DeleteEveryRow(table, q) == Done({}, <<>>)

\* DELETE FROM students WHERE roll_no = %s.
Delete(table, q) ==
    Done({r \in table : ~KeyMatches(r.roll_no, q.roll_no)}, <<>>)

\* SELECT ... FROM students [WHERE roll_no = %s] [ORDER BY roll_no].
Select(table, q) ==
    Done(table, OrderByRollNo({r \in table : q.all \/ KeyMatches(r.roll_no, q.roll_no)}))

\* Database.execute(query, params, commit, fetch) under outcome w.
execute(table, q, w) ==
    IF w = "lost" THEN Raise("RuntimeError", table)
    ELSE IF w = "fail" THEN Raise("Error", table)
    ELSE CASE q.op = "INSERT" -> Insert(table, q)
           [] q.op = "UPDATE" -> Update(table, q)
           [] q.op = "DELETE" -> Delete(table, q)
           [] q.op = "SELECT" -> Select(table, q)

InsertQ(roll_no, name, marks, grade) ==
    [op |-> "INSERT", roll_no |-> roll_no, name |-> name, marks |-> marks, grade |-> grade]

UpdateQ(roll_no, set) == [op |-> "UPDATE", roll_no |-> roll_no, set |-> set]

DeleteQ(roll_no) == [op |-> "DELETE", roll_no |-> roll_no]

SelectAllQ == [op |-> "SELECT", all |-> TRUE, roll_no |-> PyStr(<<>>)]

SelectByRollQ(roll_no) == [op |-> "SELECT", all |-> FALSE, roll_no |-> roll_no]

-----------------------------------------------------------------------------
(* StudentManager                                                          *)

\* An optional argument: None, or a value.
None == [some |-> FALSE]

Some(x) == [some |-> TRUE, val |-> x]

\* What a StudentManager operation leaves behind: the table, what it
\* printed, the exception that left it ("none" when it returned), and what
\* it returned.
Result(table, printed, exc, ret) ==
    [store |-> table, out |-> printed, raised |-> exc, ret |-> ret]

\* Database.connect prints the connector's error before execute raises.
ConnectFailed(table) ==
    Result(table, <<"Database connection error">>, "RuntimeError", None)

add_student(table, student, w) ==
    LET e == execute(table,
                     InsertQ(PyStr(student.roll_no), PyStr(student.name), student.marks,
                             PyStr(student.grade)),
                     w)
    IN  IF e.exc = "none" THEN Result(e.table, <<"Student added.">>, "none", None)
        ELSE IF e.exc = "Error" THEN Result(table, <<"Error adding student">>, "none", None)
        ELSE ConnectFailed(table)

view_students(table, w) ==
    LET e == execute(table, SelectAllQ, w)
    IN  IF e.exc = "none"
        THEN IF e.rows = <<>> THEN Result(table, <<"No students found.">>, "none", <<>>)
             ELSE Result(table, <<"<table>">>, "none", e.rows)
        ELSE IF e.exc = "Error" THEN Result(table, <<"Error fetching students">>, "none", <<>>)
        ELSE ConnectFailed(table)

get_student_by_roll(table, roll_no, w) ==
    LET e == execute(table, SelectByRollQ(PyStr(roll_no)), w)
    IN  IF e.exc = "none"
        THEN Result(table, <<>>, "none", IF e.rows = <<>> THEN None ELSE Some(e.rows[1]))
        ELSE IF e.exc = "Error" THEN Result(table, <<"Error">>, "none", None)
        ELSE ConnectFailed(table)

\* A SET clause that assigns all three columns, '' or 0 for a None argument.
SetClauseAllColumns(name, marks, grade) ==
    [c \in {"name", "marks", "grade"} |->
        CASE c = "name" -> IF name.some THEN name.val ELSE <<>>
          [] c = "marks" -> IF marks.some THEN marks.val ELSE 0
          [] c = "grade" -> IF grade.some THEN grade.val ELSE <<>>]

\* The SET clause of update_student: the columns whose argument is not None.
SetClause(name, marks, grade) ==
    [c \in {c \in {"name", "marks", "grade"} :
                \/ c = "name" /\ name.some
                \/ c = "marks" /\ marks.some
                \/ c = "grade" /\ grade.some} |->
        CASE c = "name" -> name.val
          [] c = "marks" -> marks.val
          [] c = "grade" -> grade.val]

\* ws[1] is the outcome of the SELECT, ws[2] of the UPDATE.
update_student(table, roll_no, name, marks, grade, ws) ==
    LET existing == get_student_by_roll(table, roll_no, ws[1])
        set == SetClause(name, marks, grade)
    IN  IF existing.raised # "none" THEN existing
        ELSE IF ~existing.ret.some
        THEN Result(table, existing.out \o <<"Student not found.">>, "none", None)
        ELSE IF DOMAIN set = {}
        THEN Result(table, <<"Nothing to update.">>, "none", None)
        ELSE LET e == execute(table, UpdateQ(PyStr(roll_no), set), ws[2])
             IN  IF e.exc = "none" THEN Result(e.table, <<"Student updated.">>, "none", None)
                 ELSE IF e.exc = "Error"
                 THEN Result(table, <<"Error updating student">>, "none", None)
                 ELSE ConnectFailed(table)

delete_student(table, roll_no, w) ==
    LET e == execute(table, DeleteQ(PyStr(roll_no)), w)
    IN  IF e.exc = "none" THEN Result(e.table, <<"Student deleted (if existed).">>, "none", None)
        ELSE IF e.exc = "Error" THEN Result(table, <<"Error deleting student">>, "none", None)
        ELSE ConnectFailed(table)

-----------------------------------------------------------------------------
(* CSV backup and restore                                                   *)

NoFile == [exists |-> FALSE, rows |-> <<>>]

CsvFile(rows) == [exists |-> TRUE, rows |-> rows]

Columns == {"roll_no", "name", "marks", "grade"}

\* csv.DictWriter renders each value with str().
CsvRow(r) ==
    [roll_no |-> r.roll_no, name |-> r.name, marks |-> FloatText(r.marks), grade |-> r.grade]

\* "if not rows" with the test dropped.
NoRowsNeverEmpty(rows) == FALSE

\* if not rows: view_students returned an empty list.
NoRows(rows) == rows = <<>>

\* io is "ok", or "fail" when open(path, 'w') raises (the file is left as it was).
backup_to_csv(table, f, w, io) ==
    LET v == view_students(table, w)
    IN  IF v.raised # "none" THEN [v EXCEPT !.ret = f]
        ELSE IF NoRows(v.ret)
        THEN Result(table, v.out \o <<"Nothing to backup.">>, "none", f)
        ELSE IF io = "fail"
        THEN Result(table, v.out \o <<"Backup error">>, "none", f)
        ELSE Result(table, v.out \o <<"Backup saved">>, "none",
                    CsvFile([i \in 1..Len(v.ret) |-> CsvRow(v.ret[i])]))

\* pandas.read_csv infers a type for each column from all of its cells:
\* int64 when every cell is an integer, float64 when every cell is a number,
\* object (the text itself) otherwise.
ColumnType(rows, c) ==
    IF \A i \in 1..Len(rows) : IsIntText(rows[i][c]) THEN "int"
    ELSE IF \A i \in 1..Len(rows) : IsFloatText(rows[i][c]) THEN "float"
    ELSE "str"

Cell(ty, t) ==
    IF ty = "int" THEN PyInt(IntOf(t))
    ELSE IF ty = "float" THEN PyFloat(FloatOf(t))
    ELSE PyStr(t)

read_csv(rows) ==
    [i \in 1..Len(rows) |-> [c \in Columns |-> Cell(ColumnType(rows, c), rows[i][c])]]

\* float(row['marks']): ValueError for text that is no number.
ToFloat(v) ==
    IF v.ty = "int" THEN [exc |-> "none", val |-> 100 * v.val]
    ELSE IF v.ty = "float" THEN [exc |-> "none", val |-> v.val]
    ELSE IF IsFloatText(strip(v.val)) THEN [exc |-> "none", val |-> FloatOf(strip(v.val))]
    ELSE [exc |-> "ValueError", val |-> 0]

\* The loop of restore_from_csv from row i on: every way it can end, over
\* the outcomes in W of the statements it executes.
RECURSIVE RestoreRows(_, _, _, _, _)
RestoreRows(df, i, table, printed, W) ==
    IF i > Len(df) THEN {Result(table, printed \o <<"Restore complete.">>, "none", None)}
    ELSE
    LET row == df[i]
        m == ToFloat(row.marks)
        set == [c \in {"name", "marks", "grade"} |->
                   IF c = "marks" THEN m.val ELSE SqlText(row[c])]
    IN  IF m.exc # "none" THEN {Result(table, printed, m.exc, None)}
        ELSE UNION {
          LET ins == execute(table, InsertQ(row.roll_no, row.name, m.val, row.grade), w1)
          IN  IF ins.exc = "none" THEN RestoreRows(df, i + 1, ins.table, printed, W)
              ELSE IF ins.exc # "Error"
              THEN {Result(table, printed \o <<"Database connection error">>, ins.exc, None)}
              ELSE UNION {
                LET upd == execute(table, UpdateQ(row.roll_no, set), w2)
                IN  IF upd.exc = "none" THEN RestoreRows(df, i + 1, upd.table, printed, W)
                    ELSE IF upd.exc = "Error"
                    THEN RestoreRows(df, i + 1, table, printed \o <<"Error restoring row">>, W)
                    ELSE {Result(table, printed \o <<"Database connection error">>,
                                 upd.exc, None)}
                : w2 \in W}
          : w1 \in W}

\* restore_from_csv(path): the set of its possible results when every
\* statement meets an outcome in W.
restore_from_csv(table, f, W) ==
    IF ~f.exists THEN {Result(table, <<"CSV file not found.">>, "none", None)}
    ELSE RestoreRows(read_csv(f.rows), 1, table, <<>>, W)

-----------------------------------------------------------------------------
(* Statistics and plot                                                      *)

\* The figures stats() prints are not part of the model; "<stats>" stands
\* for the printed mean, median, deviation and toppers.
stats(table, w) ==
    LET e == execute(table, SelectAllQ, w)
    IN  IF e.exc = "RuntimeError" THEN ConnectFailed(table)
        ELSE IF e.exc # "none" THEN Result(table, <<>>, e.exc, None)
        ELSE IF e.rows = <<>> THEN Result(table, <<"No data to compute stats.">>, "none", None)
        ELSE Result(table, <<"<stats>">>, "none", Some(Len(e.rows)))

\* "<histogram>" stands for the window plt.show() displays.
plot_marks_distribution(table, w) ==
    LET e == execute(table, SelectAllQ, w)
    IN  IF e.exc = "RuntimeError" THEN ConnectFailed(table)
        ELSE IF e.exc # "none" THEN Result(table, <<>>, e.exc, None)
        ELSE IF e.rows = <<>> THEN Result(table, <<"No marks to plot.">>, "none", None)
        ELSE Result(table, <<"<histogram>">>, "none", None)

-----------------------------------------------------------------------------
(* Input helpers                                                            *)

\* input() at end of input raises EOFError instead of returning a line.
EOF == <<"<EOF>">>

Value(v) == [exc |-> "none", val |-> v]

Throw(exc) == [exc |-> exc, val |-> <<>>]

input_roll(line) ==
    IF line = EOF THEN Throw("EOFError")
    ELSE IF strip(line) = <<>> THEN Throw("ValueError")
    ELSE Value(strip(line))

input_name(line) ==
    IF line = EOF THEN Throw("EOFError")
    ELSE IF strip(line) = <<>> THEN Throw("ValueError")
    ELSE Value(strip(line))

input_marks(line) ==
    IF line = EOF THEN Throw("EOFError")
    ELSE IF ~IsFloatText(strip(line)) THEN Throw("ValueError")
    ELSE IF FloatOf(strip(line)) < 0 \/ FloatOf(strip(line)) > 100 * 100 THEN Throw("ValueError")
    ELSE Value(FloatOf(strip(line)))

input_grade(line) ==
    IF line = EOF THEN Throw("EOFError")
    ELSE IF strip(line) = <<>> THEN Throw("ValueError")
    ELSE Value(strip(line))

\* input(...).strip() or None
StripOrNone(line) ==
    IF line = EOF THEN Throw("EOFError")
    ELSE IF strip(line) = <<>> THEN Value(None)
    ELSE Value(Some(strip(line)))

\* marks_input = input(...).strip(); float(marks_input) unless it is ''.
UpdateMarks(line) ==
    IF line = EOF THEN Throw("EOFError")
    ELSE IF strip(line) = <<>> THEN Value(None)
    ELSE IF ~IsFloatText(strip(line)) THEN Throw("ValueError")
    ELSE Value(Some(FloatOf(strip(line))))

\* The lines the user types at each prompt.
RollInputs == {<<"0", "7">>, <<"A", "1">>, <<" ">>, EOF}

NameInputs == {<<" ", "A", "l">>, <<>>, EOF}

MarksInputs == {<<"1", "0", "0">>, <<"1", "0", "0", ".", "0", "1">>, <<"x">>, <<>>, EOF}

GradeInputs == {<<"A">>, <<>>, EOF}

ConfirmInputs == {<<"y", "e", "s">>, <<"Y", "E", "S">>, <<"n", "o">>, EOF}

OtherChoices == {<<"x">>, <<>>}

\* The backup files a run may find at CSV_BACKUP when it starts: none, or
\* up to MaxFoundRows lines, each either a well-formed line or a line whose
\* marks cell is no number.
MaxFoundRows == 2

CsvLine(roll_no, name, marks, grade) ==
    [roll_no |-> roll_no, name |-> name, marks |-> marks, grade |-> grade]

FoundLines ==
    { CsvLine(<<"0", "7">>, <<"A", "l">>, <<"x">>, <<"A">>),
      CsvLine(<<"A", "1">>, <<"A", "l">>, <<"1", "0", "0", ".", "0">>, <<"A">>) }

FoundFiles ==
    {NoFile} \cup {CsvFile(rows) : rows \in UNION {[1..n -> FoundLines] : n \in 1..MaxFoundRows}}

-----------------------------------------------------------------------------
(* main_menu: the flows of the menu, as the set of ways each can end        *)

Failed(table, exc) == {Result(table, <<>>, exc, None)}

AddFlow(table) ==
    UNION { LET roll == input_roll(r) IN
      IF roll.exc # "none" THEN Failed(table, roll.exc) ELSE
      UNION { LET name == input_name(n) IN
        IF name.exc # "none" THEN Failed(table, name.exc) ELSE
        UNION { LET marks == input_marks(m) IN
          IF marks.exc # "none" THEN Failed(table, marks.exc) ELSE
          UNION { LET grade == input_grade(g) IN
            IF grade.exc # "none" THEN Failed(table, grade.exc) ELSE
            { add_student(table, Student(roll.val, name.val, marks.val, grade.val), w)
              : w \in ExecOutcomes }
          : g \in GradeInputs }
        : m \in MarksInputs }
      : n \in NameInputs }
    : r \in RollInputs }

ViewFlow(table) == {view_students(table, w) : w \in ExecOutcomes}

GetFlow(table) ==
    UNION { LET roll == input_roll(r) IN
      IF roll.exc # "none" THEN Failed(table, roll.exc) ELSE
      { LET s == get_student_by_roll(table, roll.val, w)
        IN  IF s.raised # "none" THEN s
            ELSE IF s.ret.some THEN [s EXCEPT !.out = s.out \o <<"<row>">>]
            ELSE [s EXCEPT !.out = s.out \o <<"Not found.">>]
        : w \in ExecOutcomes }
    : r \in RollInputs }

UpdateFlow(table) ==
    UNION { LET roll == input_roll(r) IN
      IF roll.exc # "none" THEN Failed(table, roll.exc) ELSE
      UNION { LET name == StripOrNone(n) IN
        IF name.exc # "none" THEN Failed(table, name.exc) ELSE
        UNION { LET marks == UpdateMarks(m) IN
          IF marks.exc # "none" THEN Failed(table, marks.exc) ELSE
          UNION { LET grade == StripOrNone(g) IN
            IF grade.exc # "none" THEN Failed(table, grade.exc) ELSE
            { update_student(table, roll.val, name.val, marks.val, grade.val, ws)
              : ws \in [1..2 -> ExecOutcomes] }
          : g \in GradeInputs }
        : m \in MarksInputs }
      : n \in NameInputs }
    : r \in RollInputs }

DeleteFlow(table) ==
    UNION { LET roll == input_roll(r) IN
      IF roll.exc # "none" THEN Failed(table, roll.exc) ELSE
      UNION {
        IF c = EOF THEN Failed(table, "EOFError")
        ELSE IF lower(strip(c)) = <<"y", "e", "s">>
        THEN {delete_student(table, roll.val, w) : w \in ExecOutcomes}
        ELSE {Result(table, <<"Delete cancelled.">>, "none", None)}
      : c \in ConfirmInputs }
    : r \in RollInputs }

BackupFlow(table, f) ==
    {backup_to_csv(table, f, w, io) : w \in ExecOutcomes, io \in {"ok", "fail"}}

RestoreFlow(table, f) == restore_from_csv(table, f, ExecOutcomes)

StatsFlow(table) == {stats(table, w) : w \in ExecOutcomes}

PlotFlow(table) == {plot_marks_distribution(table, w) : w \in ExecOutcomes}

\* except ValueError / except Exception at the end of the loop body.
Report(res) ==
    IF res.raised = "none" THEN res.out
    ELSE IF res.raised = "ValueError" THEN res.out \o <<"Input error">>
    ELSE res.out \o <<"Unexpected error">>

\* One iteration of the loop whose try block ended as res, leaving the file f.
Iteration(res, f) ==
    /\ store' = res.store
    /\ file' = f
    /\ out' = Report(res)
    /\ raised' = res.raised
    /\ pc' = "menu"

-----------------------------------------------------------------------------
(* The program                                                              *)

Init ==
    /\ store = {}
    /\ file \in FoundFiles
    /\ out = <<>>
    /\ raised = "none"
    /\ pc = "menu"

MenuAdd == pc = "menu" /\ \E res \in AddFlow(store) : Iteration(res, file)

MenuView == pc = "menu" /\ \E res \in ViewFlow(store) : Iteration(res, file)

MenuGet == pc = "menu" /\ \E res \in GetFlow(store) : Iteration(res, file)

MenuUpdate == pc = "menu" /\ \E res \in UpdateFlow(store) : Iteration(res, file)

MenuDelete == pc = "menu" /\ \E res \in DeleteFlow(store) : Iteration(res, file)

MenuBackup == pc = "menu" /\ \E res \in BackupFlow(store, file) : Iteration(res, res.ret)

MenuRestore == pc = "menu" /\ \E res \in RestoreFlow(store, file) : Iteration(res, file)

MenuStats == pc = "menu" /\ \E res \in StatsFlow(store) : Iteration(res, file)

MenuPlot == pc = "menu" /\ \E res \in PlotFlow(store) : Iteration(res, file)

MenuOther ==
    /\ pc = "menu"
    /\ \E c \in OtherChoices :
           /\ strip(c) \notin {<<DigitChar(d)>> : d \in 0..9}
           /\ Iteration(Result(store, <<"Invalid choice.">>, "none", None), file)

\* Choice 0: break.
MenuExit ==
    /\ pc = "menu"
    /\ pc' = "done"
    /\ out' = <<"Exiting...">>
    /\ raised' = "none"
    /\ UNCHANGED <<store, file>>

\* End of input at "Choose an option: ": the read is outside the try block,
\* so EOFError leaves main_menu.
MenuEndOfInput ==
    /\ pc = "menu"
    /\ pc' = "crashed"
    /\ out' = <<>>
    /\ raised' = "EOFError"
    /\ UNCHANGED <<store, file>>

Next ==
    \/ MenuAdd
    \/ MenuView
    \/ MenuGet
    \/ MenuUpdate
    \/ MenuDelete
    \/ MenuBackup
    \/ MenuRestore
    \/ MenuStats
    \/ MenuPlot
    \/ MenuOther
    \/ MenuExit
    \/ MenuEndOfInput

Spec == Init /\ [][Next]_vars

-----------------------------------------------------------------------------
(* Properties                                                               *)

Range(seq) == {seq[i] : i \in 1..Len(seq)}

\* Arguments the properties call the StudentManager operations with.
RollArgs == {<<"0", "7">>, <<"7">>, <<"A", "1">>, <<"B", "2">>}

NameArgs == {<<"A", "l">>, <<"B", "o">>}

MarksArgs == {0, 5550, 10000}

GradeArgs == {<<"A">>, <<"B">>}

Optional(S) == {None} \cup {Some(x) : x \in S}

\* C1.  Round trip: a non-empty table that is backed up and then restored
\* into an empty table (the database answering every statement) comes back
\* as the same set of (roll_no, name, marks, grade) rows.
C1_RoundTrip ==
    store # {} =>
        LET saved == backup_to_csv(store, file, "ok", "ok").ret
        IN  \A res \in restore_from_csv({}, saved, {"ok"}) : res.store = store

\* C2.  Partial update: for every row of the table and every choice of the
\* arguments name, marks, grade (each None or a value), update_student with
\* the database answering leaves that row with each supplied value, each
\* omitted column as it was, its roll_no as it was, and every other row as
\* it was.
C2_PartialUpdate ==
    \A r \in store : \A name \in Optional(NameArgs) : \A marks \in Optional(MarksArgs) :
    \A grade \in Optional(GradeArgs) :
        LET res == update_student(store, r.roll_no, name, marks, grade, <<"ok", "ok">>)
            u == Student(r.roll_no,
                         IF name.some THEN name.val ELSE r.name,
                         IF marks.some THEN marks.val ELSE r.marks,
                         IF grade.some THEN grade.val ELSE r.grade)
        IN  /\ res.raised = "none"
            /\ res.store = (store \ {r}) \cup {u}

\* An update of marks alone has happened: the row keeps its name and grade
\* next to another row.
C2_Witness ==
    /\ out = <<"Student updated.">>
    /\ \E r \in store : r.marks = 10001 /\ r.name = <<"A", "l">> /\ r.grade = <<"A">>
    /\ Cardinality(store) >= 2

\* C3.  No two rows share a roll_no, and add_student with a roll_no that
\* is in the table (the database answering) reports an error, raises
\* nothing and leaves the table as it was.
C3_DuplicateAddRejected ==
    /\ \A r1, r2 \in store : r1.roll_no = r2.roll_no => r1 = r2
    /\ \A r \in store : \A name \in NameArgs : \A marks \in MarksArgs : \A grade \in GradeArgs :
           add_student(store, Student(r.roll_no, name, marks, grade), "ok")
               = Result(store, <<"Error adding student">>, "none", None)

\* An add has been refused while the table holds rows.
C3_Witness ==
    /\ out = <<"Error adding student">>
    /\ Cardinality(store) >= 2

\* The rows the lines of a CSV file stand for.
FileRecords(f) ==
    {Student(f.rows[i].roll_no, f.rows[i].name, FloatOf(f.rows[i].marks), f.rows[i].grade)
        : i \in 1..Len(f.rows)}

\* The row of the last line of f for roll_no.
LastRecord(f, roll_no) ==
    LET last == CHOOSE i \in 1..Len(f.rows) :
                    /\ f.rows[i].roll_no = roll_no
                    /\ \A j \in (i + 1)..Len(f.rows) : f.rows[j].roll_no # roll_no
    IN  Student(roll_no, f.rows[last].name, FloatOf(f.rows[last].marks), f.rows[last].grade)

\* C4.  Restore is an upsert by roll_no: after a restore of a file whose
\* marks are numbers, with the database answering every statement, every
\* roll_no of the file is in the table with the values of its last line,
\* and every row whose roll_no is not in the file is as it was.
C4_RestoreUpserts ==
    (file.exists /\ \A i \in 1..Len(file.rows) : IsFloatText(file.rows[i].marks)) =>
        \A res \in restore_from_csv(store, file, {"ok"}) :
            /\ \A i \in 1..Len(file.rows) :
                   LastRecord(file, file.rows[i].roll_no) \in res.store
            /\ \A r \in store :
                   r.roll_no \notin RollNos(FileRecords(file)) => r \in res.store

\* C5.  Restore rows are independent: whatever the statements of a restore
\* meet short of a lost connection, and whatever the rows hold, the loop
\* runs to the last row of the file.
C5_RowsIndependent ==
    file.exists =>
        \A res \in restore_from_csv(store, file, {"ok", "fail"}) :
            /\ res.raised = "none"
            /\ res.out[Len(res.out)] = "Restore complete."

\* C6.  Failure containment: no storage failure leaves a StudentManager
\* operation as an exception.
C6_FailuresContained == raised \notin {"Error", "RuntimeError"}

\* C7.  Marks validation: no marks outside [0, 100] are stored through the
\* menu.
C7_MarksInRange == \A r \in store : 0 <= r.marks /\ r.marks <= 100 * 100

\* C8.  main_menu never ends by an exception.
C8_LoopSurvives == pc # "crashed"

\* C9.  Idempotent delete: for every roll_no, in the table or not,
\* delete_student called twice (the database answering) reports success
\* both times, the first call removes exactly the row with that roll_no and
\* the second call changes nothing.
C9_IdempotentDelete ==
    \A roll_no \in RollArgs :
        LET first == delete_student(store, roll_no, "ok")
            second == delete_student(first.store, roll_no, "ok")
        IN  /\ first.raised = "none" /\ first.out = <<"Student deleted (if existed).">>
            /\ second.raised = "none" /\ second.out = <<"Student deleted (if existed).">>
            /\ first.store = {r \in store : r.roll_no # roll_no}
            /\ second.store = first.store

\* A delete has happened and left another row in the table.
C9_Witness ==
    /\ out = <<"Student deleted (if existed).">>
    /\ store # {}

\* C10.  Empty-set guard: on an empty table stats, backup_to_csv and
\* plot_marks_distribution, their query answered, each report that there is
\* nothing to do, raise nothing, leave the table empty, leave the backup
\* file as it is and show no histogram.
C10_EmptyGuard ==
    store = {} =>
        /\ stats(store, "ok") = Result({}, <<"No data to compute stats.">>, "none", None)
        /\ plot_marks_distribution(store, "ok")
               = Result({}, <<"No marks to plot.">>, "none", None)
        /\ \A io \in {"ok", "fail"} :
               backup_to_csv(store, file, "ok", io)
                   = Result({}, <<"No students found.", "Nothing to backup.">>, "none", file)

\* backup_to_csv has run on an empty table while a backup file with rows
\* exists.
C10_Witness ==
    /\ store = {}
    /\ file.exists /\ file.rows # <<>>
    /\ out = <<"No students found.", "Nothing to backup.">>

====
